---- MODULE Spec2Model ----
(***************************************************************************)
(* Model of package log (src/log/logger.go): a levelled logger writing      *)
(* rendered lines to an io.Writer and forwarding events to a Riemann        *)
(* client.                                                                  *)
(*                                                                          *)
(* A Go string is a sequence of runes.  An ASCII rune is the one-character  *)
(* string of that character; a rune outside ASCII is the string of its code *)
(* point, "U+0131" for the dotless i, and so is the backquote, "U+0060",    *)
(* which a string of this module cannot hold.  strings.ToUpper, fmt.Sprintf *)
(* and concatenation are computed rune by rune.  A *Logger is an index into *)
(* the sequence loggers, an io.Writer an element of StreamIds, a            *)
(* *RiemannClient an element of ClientIds, and the nil pointer is           *)
(* NilClient.                                                               *)
(*                                                                          *)
(* The methods are called by concurrent goroutines and Logger has no lock.  *)
(* NewModule and UseRiemann touch the one mutable field, riemannClient,     *)
(* once, and are one step each.  An emit method that forwards is two steps: *)
(* first its level test and the write to the stream, later its call of      *)
(* sendRiemann, which reads riemannClient at that moment; steps of other    *)
(* calls may come in between.  The conjuncts of an action describe the      *)
(* state after the step; their order is not the order of the statements.    *)
(***************************************************************************)
EXTENDS Integers, Sequences, FiniteSets

VARIABLES
    loggers,    \* the Logger objects allocated so far, indexed by pointer
    streams,    \* per io.Writer: the sequence of strings passed to Write
    sent,       \* per RiemannClient: the sequence of events passed to SendEvent
    parent,     \* per Logger: <<receiver, prefix>> of the NewModule call that made it, <<0, <<>>>> for NewLogger
    useErr,     \* the value returned by the most recent UseRiemann call
    emits,      \* the number of emit calls made so far
    pending,    \* the emit calls that are past their level test and have yet to call sendRiemann
    conv        \* operand and results of the level conversions (SpecLevels only)

vars == <<loggers, streams, sent, parent, useErr, emits, pending, conv>>

----------------------------------------------------------------------------
(* Bounds of the model *)

MaxLoggers == 3     \* Logger objects allocated in one behaviour
MaxEmits == 1       \* emit calls made in one behaviour
MaxArgs == 1        \* length of the variadic argument list of a formatted emit
MaxRankProbe == 20  \* how far outside LogOff..LogAll intToLogLevel is probed

----------------------------------------------------------------------------
(* Logger level constants *)

LogOff == 0
LogFatal == 1
LogError == 2
LogWarn == 3
LogInfo == 4
LogDebug == 5
LogTrace == 6
LogAll == 7

OFF == <<"O", "F", "F">>
FATAL == <<"F", "A", "T", "A", "L">>
ERROR == <<"E", "R", "R", "O", "R">>
WARN == <<"W", "A", "R", "N">>
INFO == <<"I", "N", "F", "O">>
DEBUG == <<"D", "E", "B", "U", "G">>
TRACE == <<"T", "R", "A", "C", "E">>
ALL == <<"A", "L", "L">>

(* intToLogLevel falling back to "OFF" instead of "ALL" *)
intToLogLevel_DefaultOff(i) ==
    CASE i = LogOff -> OFF
      [] i = LogFatal -> FATAL
      [] i = LogError -> ERROR
      [] i = LogWarn -> WARN
      [] i = LogInfo -> INFO
      [] i = LogDebug -> DEBUG
      [] i = LogTrace -> TRACE
      [] i = LogAll -> ALL
      [] OTHER -> OFF

(* intToLogLevel - converts an integer into a human readable log level. *)
intToLogLevel(i) ==
    CASE i = LogOff -> OFF
      [] i = LogFatal -> FATAL
      [] i = LogError -> ERROR
      [] i = LogWarn -> WARN
      [] i = LogInfo -> INFO
      [] i = LogDebug -> DEBUG
      [] i = LogTrace -> TRACE
      [] i = LogAll -> ALL
      [] OTHER -> ALL

----------------------------------------------------------------------------
(* Runes.  Ascii lists the printable ASCII runes in code order, 0x20 to     *)
(* 0x7E; tab (0x09) and newline (0x0A) are the control runes of the model   *)
(* and are ASCII as well (below utf8.RuneSelf).  NonAscii lists the other   *)
(* runes of the model, each with its upper case (unicode.ToUpper), its      *)
(* UTF-8 bytes and the hexadecimal digits of its code point.                *)

Ascii ==
    <<" ", "!", "\"", "#", "$", "%", "&", "'", "(", ")", "*", "+", ",", "-", ".", "/",
      "0", "1", "2", "3", "4", "5", "6", "7", "8", "9", ":", ";", "<", "=", ">", "?",
      "@", "A", "B", "C", "D", "E", "F", "G", "H", "I", "J", "K", "L", "M", "N", "O",
      "P", "Q", "R", "S", "T", "U", "V", "W", "X", "Y", "Z", "[", "\\", "]", "^", "_",
      "U+0060", "a", "b", "c", "d", "e", "f", "g", "h", "i", "j", "k", "l", "m", "n", "o",
      "p", "q", "r", "s", "t", "u", "v", "w", "x", "y", "z", "{", "|", "}", "~">>

NonAscii ==
    <<[rune |-> "U+00B5", upper |-> "U+039C", utf8 |-> <<194, 181>>, hex |-> <<"0", "0", "b", "5">>],
      [rune |-> "U+00C9", upper |-> "U+00C9", utf8 |-> <<195, 137>>, hex |-> <<"0", "0", "c", "9">>],
      [rune |-> "U+00DF", upper |-> "U+00DF", utf8 |-> <<195, 159>>, hex |-> <<"0", "0", "d", "f">>],
      [rune |-> "U+00E9", upper |-> "U+00C9", utf8 |-> <<195, 169>>, hex |-> <<"0", "0", "e", "9">>],
      [rune |-> "U+00FF", upper |-> "U+0178", utf8 |-> <<195, 191>>, hex |-> <<"0", "0", "f", "f">>],
      [rune |-> "U+0131", upper |-> "I", utf8 |-> <<196, 177>>, hex |-> <<"0", "1", "3", "1">>],
      [rune |-> "U+0178", upper |-> "U+0178", utf8 |-> <<197, 184>>, hex |-> <<"0", "1", "7", "8">>],
      [rune |-> "U+017F", upper |-> "S", utf8 |-> <<197, 191>>, hex |-> <<"0", "1", "7", "f">>],
      [rune |-> "U+039C", upper |-> "U+039C", utf8 |-> <<206, 156>>, hex |-> <<"0", "3", "9", "c">>]>>

IsAscii(c) == c \in {"\t", "\n"} \/ \E k \in DOMAIN Ascii : Ascii[k] = c
AsciiCode(c) ==
    CASE c = "\t" -> 9
      [] c = "\n" -> 10
      [] OTHER -> 31 + (CHOOSE k \in DOMAIN Ascii : Ascii[k] = c)
IsNonAscii(c) == \E k \in DOMAIN NonAscii : NonAscii[k].rune = c
NonAsciiEntry(c) == NonAscii[CHOOSE k \in DOMAIN NonAscii : NonAscii[k].rune = c]

(* strings.ToUpper on one rune: a to z lose 0x20, a rune outside ASCII goes *)
(* to its unicode.ToUpper, every other rune to itself                       *)
ToUpperChar(c) ==
    IF \E k \in (97 - 31)..(122 - 31) : Ascii[k] = c
    THEN Ascii[(CHOOSE k \in (97 - 31)..(122 - 31) : Ascii[k] = c) - 32]
    ELSE IF IsNonAscii(c) THEN NonAsciiEntry(c).upper ELSE c

ToUpper(s) == [k \in 1..Len(s) |-> ToUpperChar(s[k])]

(* logLevelToInt falling back to LogAll, as intToLogLevel does, instead of -1 *)
logLevelToInt_DefaultAll(level) ==
    LET levelUpper == ToUpper(level) IN
    CASE levelUpper = OFF -> LogOff
      [] levelUpper = FATAL -> LogFatal
      [] levelUpper = ERROR -> LogError
      [] levelUpper = WARN -> LogWarn
      [] levelUpper = INFO -> LogInfo
      [] levelUpper = DEBUG -> LogDebug
      [] levelUpper = TRACE -> LogTrace
      [] OTHER -> LogAll

(* logLevelToInt - converts a human readable log level into an integer. *)
logLevelToInt(level) ==
    LET levelUpper == ToUpper(level) IN
    CASE levelUpper = OFF -> LogOff
      [] levelUpper = FATAL -> LogFatal
      [] levelUpper = ERROR -> LogError
      [] levelUpper = WARN -> LogWarn
      [] levelUpper = INFO -> LogInfo
      [] levelUpper = DEBUG -> LogDebug
      [] levelUpper = TRACE -> LogTrace
      [] levelUpper = ALL -> LogAll
      [] OTHER -> -1

----------------------------------------------------------------------------
(* fmt.Sprintf / fmt.Fprintf, as called at logger.go:155, 185, 188, 200 and *)
(* 211, after package fmt of the current Go releases.  Every operand the    *)
(* model passes is a string, so only the string case of printArg is needed. *)
(* Positions in a format count from 1, where Go counts from 0.              *)

percentBangString == <<"%", "!">>
missingString == <<"(", "M", "I", "S", "S", "I", "N", "G", ")">>
badIndexString == <<"(", "B", "A", "D", "I", "N", "D", "E", "X", ")">>
noVerbString == <<"%", "!", "(", "N", "O", "V", "E", "R", "B", ")">>
extraString == <<"%", "!", "(", "E", "X", "T", "R", "A", " ">>
badWidthString == <<"%", "!", "(", "B", "A", "D", "W", "I", "D", "T", "H", ")">>
badPrecString == <<"%", "!", "(", "B", "A", "D", "P", "R", "E", "C", ")">>
commaSpaceString == <<",", " ">>
stringType == <<"s", "t", "r", "i", "n", "g">>
ldigits == <<"0", "1", "2", "3", "4", "5", "6", "7", "8", "9", "a", "b", "c", "d", "e", "f", "x">>
udigits == <<"0", "1", "2", "3", "4", "5", "6", "7", "8", "9", "A", "B", "C", "D", "E", "F", "X">>

(* the flags of the formatter, width and precision after clearflags *)
clearflags ==
    [sharp |-> FALSE, zero |-> FALSE, plus |-> FALSE, minus |-> FALSE, space |-> FALSE,
     sharpV |-> FALSE, wid |-> 0, widPresent |-> FALSE, prec |-> 0, precPresent |-> FALSE]

(* the flags after a '%': each sets its field, up to the first other rune *)
RECURSIVE simpleFormat(_, _, _)
simpleFormat(format, i, f) ==
    IF i > Len(format) THEN [i |-> i, f |-> f]
    ELSE CASE format[i] = "#" -> simpleFormat(format, i + 1, [f EXCEPT !.sharp = TRUE])
           [] format[i] = "0" -> simpleFormat(format, i + 1, [f EXCEPT !.zero = TRUE])
           [] format[i] = "+" -> simpleFormat(format, i + 1, [f EXCEPT !.plus = TRUE])
           [] format[i] = "-" -> simpleFormat(format, i + 1, [f EXCEPT !.minus = TRUE])
           [] format[i] = " " -> simpleFormat(format, i + 1, [f EXCEPT !.space = TRUE])
           [] OTHER -> [i |-> i, f |-> f]

tooLarge(x) == x > 1000000 \/ x < -1000000

(* parsenum - the decimal number at positions start .. end - 1 of s *)
RECURSIVE parsenumLoop(_, _, _, _, _)
parsenumLoop(s, newi, end, num, isnum) ==
    IF newi < end /\ IsAscii(s[newi]) /\ AsciiCode(s[newi]) \in 48..57
    THEN IF tooLarge(num)
         THEN [num |-> 0, isnum |-> FALSE, newi |-> end]
         ELSE parsenumLoop(s, newi + 1, end, num * 10 + (AsciiCode(s[newi]) - 48), TRUE)
    ELSE [num |-> num, isnum |-> isnum, newi |-> newi]

parsenum(s, start, end) ==
    IF start >= end
    THEN [num |-> 0, isnum |-> FALSE, newi |-> end]
    ELSE parsenumLoop(s, start, end, 0, FALSE)

(* the position of the first ']' after position i, or 0 *)
closingBracket(format, i) ==
    IF \E j \in (i + 1)..Len(format) : format[j] = "]"
    THEN CHOOSE j \in (i + 1)..Len(format) :
             format[j] = "]" /\ \A n \in (i + 1)..(j - 1) : format[n] # "]"
    ELSE 0

(* parseArgNumber, for the number r found between the brackets at i and j *)
parseArgNumberOf(i, j, r) ==
    IF ~r.isnum \/ r.newi # j
    THEN [index |-> 0, wid |-> j - i + 1, ok |-> FALSE]
    ELSE [index |-> r.num - 1, wid |-> j - i + 1, ok |-> TRUE]

(* parseArgNumber, the closing bracket being at j *)
parseArgNumberTo(format, i, j) ==
    IF Len(format) - i + 1 < 3 \/ j = 0
    THEN [index |-> 0, wid |-> 1, ok |-> FALSE]
    ELSE parseArgNumberOf(i, j, parsenum(format, i + 1, j))

(* parseArgNumber - the index in "[n]", the '[' being at position i *)
parseArgNumber(format, i) == parseArgNumberTo(format, i, closingBracket(format, i))

(* The state of doPrintf inside one verb: the position i in the format, the *)
(* number argNum of operands consumed, the formatter f, the text out        *)
(* written for the verb so far, afterIndex, goodArgNum (good) and whether   *)
(* an operand index was seen (reordered).                                   *)

(* argNumber, for the index r parsed at position st.i *)
argNumberOf(numArgs, st, r) ==
    IF r.ok /\ 0 <= r.index /\ r.index < numArgs
    THEN [st EXCEPT !.argNum = r.index, !.i = st.i + r.wid, !.afterIndex = TRUE,
                    !.reordered = TRUE]
    ELSE [st EXCEPT !.i = st.i + r.wid, !.afterIndex = r.ok, !.reordered = TRUE,
                    !.good = FALSE]

(* argNumber - the operand index after an optional "[n]" at position st.i *)
argNumber(format, numArgs, st) ==
    IF st.i > Len(format) \/ format[st.i] # "["
    THEN [st EXCEPT !.afterIndex = FALSE]
    ELSE argNumberOf(numArgs, st, parseArgNumber(format, st.i))

(* intFromArg - a width or precision taken from the operands: a string is   *)
(* no integer, and is consumed                                              *)
intFromArg(a, argNum) ==
    [num |-> 0, isInt |-> FALSE, newArgNum |-> IF argNum < Len(a) THEN argNum + 1 ELSE argNum]

(* writePadding - n runes of padding: zeros only to the left *)
writePadding(f, n) ==
    IF n <= 0 THEN <<>> ELSE [k \in 1..n |-> IF f.zero /\ ~f.minus THEN "0" ELSE " "]

(* padString - s padded to the width, on the left or, with '-', on the right *)
padString(f, s) ==
    IF ~f.widPresent \/ f.wid = 0
    THEN s
    ELSE IF ~f.minus
         THEN writePadding(f, f.wid - Len(s)) \o s
         ELSE s \o writePadding(f, f.wid - Len(s))

(* truncateString - s cut to the precision, counted in runes *)
truncateString(f, s) ==
    IF f.precPresent /\ f.prec < Len(s) THEN SubSeq(s, 1, f.prec) ELSE s

(* fmtS - a string under %s *)
fmtS(f, s) == padString(f, truncateString(f, s))

(* strconv.CanBackquote - no backquote and no control rune but tab *)
CanBackquote(s) == \A k \in 1..Len(s) : s[k] \notin {"U+0060", "\n"}

(* one rune inside a double-quoted Go string (strconv.appendEscapedRune) *)
appendEscapedRune(r, ASCIIonly) ==
    CASE r = "\"" -> <<"\\", "\"">>
      [] r = "\\" -> <<"\\", "\\">>
      [] r = "\n" -> <<"\\", "n">>
      [] r = "\t" -> <<"\\", "t">>
      [] ASCIIonly /\ IsNonAscii(r) -> <<"\\", "u">> \o NonAsciiEntry(r).hex
      [] OTHER -> <<r>>

RECURSIVE appendQuotedWith(_, _, _)
appendQuotedWith(s, k, ASCIIonly) ==
    IF k > Len(s)
    THEN <<"\"">>
    ELSE appendEscapedRune(s[k], ASCIIonly) \o appendQuotedWith(s, k + 1, ASCIIonly)

(* fmtQ - a string under %q or %#v: back-quoted with '#' when it can be,    *)
(* else double-quoted, escaped to ASCII with '+'                            *)
fmtQ(f, s) ==
    IF f.sharp /\ CanBackquote(truncateString(f, s))
    THEN padString(f, <<"U+0060">> \o truncateString(f, s) \o <<"U+0060">>)
    ELSE padString(f, <<"\"">> \o appendQuotedWith(truncateString(f, s), 1, f.plus))

(* the UTF-8 bytes of a string *)
RECURSIVE bytesOf(_, _)
bytesOf(s, k) ==
    IF k > Len(s) THEN <<>>
    ELSE (IF IsAscii(s[k])
          THEN <<AsciiCode(s[k])>>
          ELSE NonAsciiEntry(s[k]).utf8) \o bytesOf(s, k + 1)

RECURSIVE hexBytes(_, _, _, _, _)
hexBytes(f, b, k, length, digits) ==
    IF k > length THEN <<>>
    ELSE (IF f.space /\ k > 1
          THEN <<" ">> \o (IF f.sharp THEN <<"0", digits[17]>> ELSE <<>>)
          ELSE <<>>)
         \o <<digits[(b[k] \div 16) + 1], digits[(b[k] % 16) + 1]>>
         \o hexBytes(f, b, k + 1, length, digits)

(* fmtSbx - the bytes b in hexadecimal, two digits a byte, the precision   *)
(* counting bytes                                                           *)
fmtSbx(f, b, digits) ==
    LET length == IF f.precPresent /\ f.prec < Len(b) THEN f.prec ELSE Len(b)
        width == IF f.space
                 THEN (IF f.sharp THEN 4 * length ELSE 2 * length) + length - 1
                 ELSE IF f.sharp THEN 2 * length + 2 ELSE 2 * length
    IN  IF length = 0
        THEN (IF f.widPresent THEN writePadding(f, f.wid) ELSE <<>>)
        ELSE (IF f.widPresent /\ f.wid > width /\ ~f.minus THEN writePadding(f, f.wid - width) ELSE <<>>)
             \o (IF f.sharp THEN <<"0", digits[17]>> ELSE <<>>)
             \o hexBytes(f, b, 1, length, digits)
             \o (IF f.widPresent /\ f.wid > width /\ f.minus THEN writePadding(f, f.wid - width) ELSE <<>>)

(* fmtSx - a string under %x or %X *)
fmtSx(f, s, digits) == fmtSbx(f, bytesOf(s, 1), digits)

(* fmtString, verb v: Go syntax with '#', else as %s *)
fmtStringV(f, v) == IF f.sharpV THEN fmtQ(f, v) ELSE fmtS(f, v)

(* badVerb - "%!verb(string=...)": the operand is printed by printArg under *)
(* %v, which for a string is fmtString's case v, with the flags in force    *)
badVerb(f, arg, verb) ==
    percentBangString \o <<verb, "(">> \o stringType \o <<"=">> \o fmtStringV(f, arg) \o <<")">>

(* fmtString - a string under a verb *)
fmtString(f, v, verb) ==
    CASE verb = "v" -> fmtStringV(f, v)
      [] verb = "s" -> fmtS(f, v)
      [] verb \in {"x", "X"} -> fmtSx(f, v, IF verb = "x" THEN ldigits ELSE udigits)
      [] verb = "q" -> fmtQ(f, v)
      [] OTHER -> badVerb(f, v, verb)

(* printArg - one string operand under a verb: %T is its type, %p a bad verb *)
printArg(f, arg, verb) ==
    CASE verb = "T" -> fmtS(f, stringType)
      [] verb = "p" -> badVerb(f, arg, verb)
      [] OTHER -> fmtString(f, arg, verb)

missingArg(verb) == percentBangString \o <<verb>> \o missingString
badArgNum(verb) == percentBangString \o <<verb>> \o badIndexString

(* doPrintf, one verb: the state after the flags fl *)
verbFlags(fl, argNum, reordered) ==
    [i |-> fl.i, argNum |-> argNum, f |-> fl.f, out |-> <<>>,
     afterIndex |-> FALSE, good |-> TRUE, reordered |-> reordered]

(* doPrintf, one verb: the width, a number or '*' *)
verbWidth(format, a, st) ==
    IF st.i <= Len(format) /\ format[st.i] = "*"
    THEN LET w == intFromArg(a, st.argNum) IN
         [st EXCEPT !.i = st.i + 1,
                    !.argNum = w.newArgNum,
                    !.f = [st.f EXCEPT !.wid = w.num, !.widPresent = w.isInt],
                    !.out = st.out \o (IF w.isInt THEN <<>> ELSE badWidthString),
                    !.afterIndex = FALSE]
    ELSE LET w == parsenum(format, st.i, Len(format) + 1) IN
         [st EXCEPT !.i = w.newi,
                    !.f = [st.f EXCEPT !.wid = w.num, !.widPresent = w.isnum],
                    !.good = st.good /\ ~(st.afterIndex /\ w.isnum)]

(* doPrintf, one verb: the precision, a number, '*' or nothing, st.i being  *)
(* past the '.' and its optional operand index                              *)
verbPrecisionOf(format, a, st) ==
    IF st.i <= Len(format) /\ format[st.i] = "*"
    THEN LET pr == intFromArg(a, st.argNum) IN
         [st EXCEPT !.i = st.i + 1,
                    !.argNum = pr.newArgNum,
                    !.f = [st.f EXCEPT !.prec = pr.num, !.precPresent = pr.isInt],
                    !.out = st.out \o (IF pr.isInt THEN <<>> ELSE badPrecString),
                    !.afterIndex = FALSE]
    ELSE LET pr == parsenum(format, st.i, Len(format) + 1) IN
         [st EXCEPT !.i = pr.newi,
                    !.f = [st.f EXCEPT !.prec = pr.num, !.precPresent = TRUE]]

(* doPrintf, one verb: the precision after a '.', if there is one *)
verbPrecision(format, a, st) ==
    IF st.i <= Len(format) /\ format[st.i] = "."
    THEN verbPrecisionOf(format, a,
             argNumber(format, Len(a),
                       [st EXCEPT !.i = st.i + 1, !.good = st.good /\ ~st.afterIndex]))
    ELSE st

(* doPrintf, one verb: the operand index just before the verb *)
verbIndex(format, a, st) ==
    IF st.afterIndex THEN st ELSE argNumber(format, Len(a), st)

(* doPrintf, one verb: the verb at position st.i and what it prints; noVerb *)
(* when the format ends before it                                           *)
verbPrint(format, a, st) ==
    IF st.i > Len(format)
    THEN [out |-> st.out \o noVerbString, i |-> st.i, argNum |-> st.argNum,
          reordered |-> st.reordered, noVerb |-> TRUE]
    ELSE LET verb == format[st.i]
             f == IF verb \in {"v", "w"}
                  THEN [st.f EXCEPT !.sharpV = st.f.sharp, !.sharp = FALSE, !.plus = FALSE]
                  ELSE st.f
         IN  CASE verb = "%" ->
                    [out |-> st.out \o <<"%">>, i |-> st.i + 1, argNum |-> st.argNum,
                     reordered |-> st.reordered, noVerb |-> FALSE]
               [] verb # "%" /\ ~st.good ->
                    [out |-> st.out \o badArgNum(verb), i |-> st.i + 1, argNum |-> st.argNum,
                     reordered |-> st.reordered, noVerb |-> FALSE]
               [] verb # "%" /\ st.good /\ st.argNum >= Len(a) ->
                    [out |-> st.out \o missingArg(verb), i |-> st.i + 1, argNum |-> st.argNum,
                     reordered |-> st.reordered, noVerb |-> FALSE]
               [] OTHER ->
                    [out |-> st.out \o printArg(f, a[st.argNum + 1], verb), i |-> st.i + 1,
                     argNum |-> st.argNum + 1, reordered |-> st.reordered, noVerb |-> FALSE]

(* doPrintf, one verb, the '%' being at position i - 1: flags, operand      *)
(* index, width, precision, operand index, verb                             *)
formatVerb(format, i, a, argNum, reordered) ==
    verbPrint(format, a,
        verbIndex(format, a,
            verbPrecision(format, a,
                verbWidth(format, a,
                    argNumber(format, Len(a),
                        verbFlags(simpleFormat(format, i, clearflags), argNum, reordered))))))

(* the operands no verb consumed, from operand argNum + 1 on *)
RECURSIVE extraArgs(_, _, _)
extraArgs(a, argNum, k) ==
    IF k > Len(a)
    THEN <<>>
    ELSE (IF k > argNum + 1 THEN commaSpaceString ELSE <<>>)
         \o stringType \o <<"=">> \o printArg(clearflags, a[k], "v")
         \o extraArgs(a, argNum, k + 1)

(* the end of doPrintf: "%!(EXTRA ...)" unless an operand index was used *)
checkExtra(a, argNum, reordered) ==
    IF ~reordered /\ argNum < Len(a)
    THEN extraString \o extraArgs(a, argNum, argNum + 1) \o <<")">>
    ELSE <<>>

(* the formatting loop, v being what the item before printed and where it  *)
(* left the format: text up to the next '%' is copied, a '%' starts a verb, *)
(* and the end of the format, or a format ending inside a verb, ends it     *)
RECURSIVE formatLoop(_, _, _)
formatLoop(format, a, v) ==
    v.out \o
    (IF v.noVerb \/ v.i > Len(format)
     THEN checkExtra(a, v.argNum, v.reordered)
     ELSE IF format[v.i] # "%"
     THEN formatLoop(format, a, [v EXCEPT !.out = <<format[v.i]>>, !.i = v.i + 1])
     ELSE formatLoop(format, a, formatVerb(format, v.i + 1, a, v.argNum, v.reordered)))

doPrintf(format, a) ==
    formatLoop(format, a, [out |-> <<>>, i |-> 1, argNum |-> 0, reordered |-> FALSE, noVerb |-> FALSE])

Sprintf(format, a) == doPrintf(format, a)

----------------------------------------------------------------------------
(* Inputs of the model *)

StreamIds == {1, 2}
ClientIds == {1, 2}
NilClient == 0
NoError == "nil"
ErrClientNil == "ErrClientNil"

RootPrefixes == {<<"s", "v", "c">>}
LevelNames == {OFF, FATAL, ERROR, WARN, INFO, DEBUG, TRACE, ALL,
               <<"i", "n", "f", "o">>, <<"U+0131", "n", "f", "o">>, <<"l", "o", "u", "d">>}
ModulePrefixes == {<<".", "m">>}
Formats == {<<"%", "v">>}
Messages == {<<"l", "o", "w">>, <<"%">>}
ArgValues == {<<"x">>}
Others == UNION {[1..n -> ArgValues] : n \in 0..MaxArgs}
(* time.Now().Format(time.RFC3339): the clock is an input *)
Clock == {<<"2", "0", "1", "4", "-", "0", "7", "-", "0", "1", "T",
            "1", "2", ":", "0", "0", ":", "0", "0", "Z">>}

LoggerConfigs ==
    [Prefix : RootPrefixes, LogLevel : LevelNames, AddTimeStamp : BOOLEAN]

(* DefaultLoggerConfig - the default values for each field *)
DefaultLoggerConfig ==
    [Prefix |-> <<"s", "e", "r", "v", "i", "c", "e">>, LogLevel |-> INFO, AddTimeStamp |-> TRUE]

----------------------------------------------------------------------------
(* Logger *)

(* NewLogger - create and return a new logger object *)
NewLogger(stream, config) ==
    [stream |-> stream,
     config |-> config,
     level |-> logLevelToInt(config.LogLevel),
     riemannClient |-> NilClient]

(* NewModule joining the two prefixes with a separator *)
NewModule_Separator(l, prefix) ==
    LET config == [l.config EXCEPT
                     !.Prefix = Sprintf(<<"%", "v", ".", "%", "v">>, <<l.config.Prefix, prefix>>)]
    IN  [stream |-> l.stream,
         config |-> config,
         level |-> l.level,
         riemannClient |-> l.riemannClient]

(* NewModule - the logger made from logger l with an extra prefix *)
NewModule(l, prefix) ==
    LET config == [l.config EXCEPT
                     !.Prefix = Sprintf(<<"%", "v", "%", "v">>, <<l.config.Prefix, prefix>>)]
    IN  [stream |-> l.stream,
         config |-> config,
         level |-> l.level,
         riemannClient |-> l.riemannClient]

(* UseRiemann storing the client before it tests it *)
UseRiemann_AssignFirst(l, client) ==
    [logger |-> [l EXCEPT !.riemannClient = client],
     err |-> IF client = NilClient THEN ErrClientNil ELSE NoError]

(* UseRiemann - logger l after the call, and the error returned *)
UseRiemann(l, client) ==
    IF client = NilClient
    THEN [logger |-> l, err |-> ErrClientNil]
    ELSE [logger |-> [l EXCEPT !.riemannClient = client], err |-> NoError]

(* the timestamp segment of printf and printLine *)
timestampStr(l, now) ==
    IF l.config.AddTimeStamp
    THEN Sprintf(<<"%", "v", " ", "|", " ">>, <<now>>)
    ELSE <<>>

(* printf writing the extras and the message in two calls *)
printf_TwoWrites(l, message, level, other, now) ==
    [streams EXCEPT ![l.stream] =
        Append(Append(@, Sprintf(<<"%", "v", "%", "v", " ", "|", " ", "%", "v", " ", "|", " ">>,
                                 <<timestampStr(l, now), level, l.config.Prefix>>)),
               Sprintf(message, other))]

(* printf - the streams after the formatted message is written *)
printf(l, message, level, other, now) ==
    [streams EXCEPT ![l.stream] =
        Append(@, Sprintf(Sprintf(<<"%", "v", "%", "v", " ", "|", " ", "%", "v", " ", "|", " ", "%", "v">>,
                                  <<timestampStr(l, now), level, l.config.Prefix, message>>),
                          other))]

(* printLine - the streams after the message line is written *)
printLine(l, message, level, now) ==
    [streams EXCEPT ![l.stream] =
        Append(@, Sprintf(Sprintf(<<"%", "v", "%", "v", " ", "|", " ", "%", "v", " ", "|", " ", "%", "v", "\n">>,
                                  <<timestampStr(l, now), level, l.config.Prefix, message>>),
                          <<>>))]

(* sendRiemann - the clients' events after the log event is sent, if a client is set *)
sendRiemann(l, message, level, other) ==
    IF l.riemannClient # NilClient
    THEN [sent EXCEPT ![l.riemannClient] =
            Append(@, [Service |-> l.config.Prefix,
                       State |-> level,
                       Description |-> Sprintf(message, other)])]
    ELSE sent

----------------------------------------------------------------------------
(* The calls a program makes on the loggers it holds *)

Loggers == DOMAIN loggers

(* an emit call is made while fewer than MaxEmits have been made, and is counted *)
Accepts == emits < MaxEmits /\ emits' = emits + 1

(* the emit call being made, as it stands before its sendRiemann statement *)
Call(p, message, level, other) ==
    [id |-> emits + 1, logger |-> p, message |-> message, level |-> level, other |-> other]

(* NewModule extending the prefix in the receiver's own configuration *)
CallNewModule_Aliased(p, prefix) ==
    /\ Len(loggers) < MaxLoggers
    /\ loggers' = Append([loggers EXCEPT ![p].config = NewModule(loggers[p], prefix).config],
                         NewModule(loggers[p], prefix))
    /\ parent' = Append(parent, <<p, prefix>>)
    /\ UNCHANGED <<streams, sent, useErr, emits, pending, conv>>

(* NewModule - called on logger p *)
CallNewModule(p, prefix) ==
    /\ Len(loggers) < MaxLoggers
    /\ loggers' = Append(loggers, NewModule(loggers[p], prefix))
    /\ parent' = Append(parent, <<p, prefix>>)
    /\ UNCHANGED <<streams, sent, useErr, emits, pending, conv>>

(* UseRiemann setting the client of the receiver and of the loggers derived from it *)
CallUseRiemann_Shared(p, client) ==
    /\ loggers' = [q \in DOMAIN loggers |->
                     IF q = p \/ parent[q][1] = p
                     THEN UseRiemann(loggers[q], client).logger
                     ELSE loggers[q]]
    /\ useErr' = UseRiemann(loggers[p], client).err
    /\ UNCHANGED <<streams, sent, parent, emits, pending, conv>>

(* UseRiemann - called on logger p *)
CallUseRiemann(p, client) ==
    /\ loggers' = [loggers EXCEPT ![p] = UseRiemann(loggers[p], client).logger]
    /\ useErr' = UseRiemann(loggers[p], client).err
    /\ UNCHANGED <<streams, sent, parent, emits, pending, conv>>

(* The emit methods, called on logger p *)

(* Fatalf - print a fatal message to the console: the level test and the write; the event is still to be sent *)
Fatalf(p, message, other, now) ==
    /\ Accepts
    /\ pending' = pending \cup {Call(p, message, FATAL, other)}
    /\ streams' = IF LogFatal <= loggers[p].level
                  THEN printf(loggers[p], message, FATAL, other, now)
                  ELSE streams
    /\ UNCHANGED <<loggers, sent, parent, useErr, conv>>

(* Errorf - print an error message to the console: the level test and the write; the event is still to be sent *)
Errorf(p, message, other, now) ==
    /\ Accepts
    /\ pending' = pending \cup {Call(p, message, ERROR, other)}
    /\ streams' = IF LogError <= loggers[p].level
                  THEN printf(loggers[p], message, ERROR, other, now)
                  ELSE streams
    /\ UNCHANGED <<loggers, sent, parent, useErr, conv>>

(* Warnf - print a warning message to the console: the level test and the write; the event is still to be sent *)
Warnf(p, message, other, now) ==
    /\ Accepts
    /\ pending' = pending \cup {Call(p, message, WARN, other)}
    /\ streams' = IF LogWarn <= loggers[p].level
                  THEN printf(loggers[p], message, WARN, other, now)
                  ELSE streams
    /\ UNCHANGED <<loggers, sent, parent, useErr, conv>>

(* Infof sending the event only when the message is printed *)
Infof_GatedSend(p, message, other, now) ==
    /\ Accepts
    /\ pending' = IF LogInfo <= loggers[p].level
                  THEN pending \cup {Call(p, message, INFO, other)}
                  ELSE pending
    /\ streams' = IF LogInfo <= loggers[p].level
                  THEN printf(loggers[p], message, INFO, other, now)
                  ELSE streams
    /\ UNCHANGED <<loggers, sent, parent, useErr, conv>>

(* Infof - print an information message to the console: the level test and the write; the event is still to be sent *)
Infof(p, message, other, now) ==
    /\ Accepts
    /\ pending' = pending \cup {Call(p, message, INFO, other)}
    /\ streams' = IF LogInfo <= loggers[p].level
                  THEN printf(loggers[p], message, INFO, other, now)
                  ELSE streams
    /\ UNCHANGED <<loggers, sent, parent, useErr, conv>>

(* Debugf - print a debug message to the console; no event is sent *)
Debugf(p, message, other, now) ==
    /\ Accepts
    /\ pending' = pending
    /\ streams' = IF LogDebug <= loggers[p].level
                  THEN printf(loggers[p], message, DEBUG, other, now)
                  ELSE streams
    /\ UNCHANGED <<loggers, sent, parent, useErr, conv>>

(* Tracef - print a trace message to the console; no event is sent *)
Tracef(p, message, other, now) ==
    /\ Accepts
    /\ pending' = pending
    /\ streams' = IF LogTrace <= loggers[p].level
                  THEN printf(loggers[p], message, TRACE, other, now)
                  ELSE streams
    /\ UNCHANGED <<loggers, sent, parent, useErr, conv>>

(* Fatalln - print a fatal message to the console: the level test and the write; the event is still to be sent *)
Fatalln(p, message, now) ==
    /\ Accepts
    /\ pending' = pending \cup {Call(p, message, FATAL, <<>>)}
    /\ streams' = IF LogFatal <= loggers[p].level
                  THEN printLine(loggers[p], message, FATAL, now)
                  ELSE streams
    /\ UNCHANGED <<loggers, sent, parent, useErr, conv>>

(* Errorln gated as a warning *)
Errorln_WarnGate(p, message, now) ==
    /\ Accepts
    /\ pending' = pending \cup {Call(p, message, ERROR, <<>>)}
    /\ streams' = IF LogWarn <= loggers[p].level
                  THEN printLine(loggers[p], message, ERROR, now)
                  ELSE streams
    /\ UNCHANGED <<loggers, sent, parent, useErr, conv>>

(* Errorln - print an error message to the console: the level test and the write; the event is still to be sent *)
Errorln(p, message, now) ==
    /\ Accepts
    /\ pending' = pending \cup {Call(p, message, ERROR, <<>>)}
    /\ streams' = IF LogError <= loggers[p].level
                  THEN printLine(loggers[p], message, ERROR, now)
                  ELSE streams
    /\ UNCHANGED <<loggers, sent, parent, useErr, conv>>

(* Warnln - print a warning message to the console: the level test and the write; the event is still to be sent *)
Warnln(p, message, now) ==
    /\ Accepts
    /\ pending' = pending \cup {Call(p, message, WARN, <<>>)}
    /\ streams' = IF LogWarn <= loggers[p].level
                  THEN printLine(loggers[p], message, WARN, now)
                  ELSE streams
    /\ UNCHANGED <<loggers, sent, parent, useErr, conv>>

(* Infoln - print an information message to the console: the level test and the write; the event is still to be sent *)
Infoln(p, message, now) ==
    /\ Accepts
    /\ pending' = pending \cup {Call(p, message, INFO, <<>>)}
    /\ streams' = IF LogInfo <= loggers[p].level
                  THEN printLine(loggers[p], message, INFO, now)
                  ELSE streams
    /\ UNCHANGED <<loggers, sent, parent, useErr, conv>>

(* Debugln - print a debug message to the console; no event is sent *)
Debugln(p, message, now) ==
    /\ Accepts
    /\ pending' = pending
    /\ streams' = IF LogDebug <= loggers[p].level
                  THEN printLine(loggers[p], message, DEBUG, now)
                  ELSE streams
    /\ UNCHANGED <<loggers, sent, parent, useErr, conv>>

(* Traceln - print a trace message to the console; no event is sent *)
Traceln(p, message, now) ==
    /\ Accepts
    /\ pending' = pending
    /\ streams' = IF LogTrace <= loggers[p].level
                  THEN printLine(loggers[p], message, TRACE, now)
                  ELSE streams
    /\ UNCHANGED <<loggers, sent, parent, useErr, conv>>

(* the sendRiemann statement that ends the emit call c: the client is the  *)
(* one the logger has now.  sendRiemann reads riemannClient for its test    *)
(* and again for the call; a client is never replaced by nil, so the second *)
(* read decides and the two are one step.                                   *)
CallSendRiemann(c) ==
    /\ c \in pending
    /\ pending' = pending \ {c}
    /\ sent' = sendRiemann(loggers[c.logger], c.message, c.level, c.other)
    /\ UNCHANGED <<loggers, streams, parent, useErr, emits, conv>>

(* no level conversion is under way *)
NoConv == [stage |-> "none", rank |-> LogOff, name |-> <<>>, back |-> LogOff]

Init ==
    /\ \E config \in LoggerConfigs : loggers = <<NewLogger(1, config)>>
    /\ streams = [s \in StreamIds |-> <<>>]
    /\ sent = [c \in ClientIds |-> <<>>]
    /\ parent = << <<0, <<>> >> >>
    /\ useErr = NoError
    /\ emits = 0
    /\ pending = {}
    /\ conv = NoConv

Next ==
    \/ \E p \in Loggers, prefix \in ModulePrefixes : CallNewModule(p, prefix)
    \/ \E p \in Loggers, client \in ClientIds \cup {NilClient} : CallUseRiemann(p, client)
    \/ \E p \in Loggers, message \in Formats, other \in Others, now \in Clock : Fatalf(p, message, other, now)
    \/ \E p \in Loggers, message \in Formats, other \in Others, now \in Clock : Errorf(p, message, other, now)
    \/ \E p \in Loggers, message \in Formats, other \in Others, now \in Clock : Warnf(p, message, other, now)
    \/ \E p \in Loggers, message \in Formats, other \in Others, now \in Clock : Infof(p, message, other, now)
    \/ \E p \in Loggers, message \in Formats, other \in Others, now \in Clock : Debugf(p, message, other, now)
    \/ \E p \in Loggers, message \in Formats, other \in Others, now \in Clock : Tracef(p, message, other, now)
    \/ \E p \in Loggers, message \in Messages, now \in Clock : Fatalln(p, message, now)
    \/ \E p \in Loggers, message \in Messages, now \in Clock : Errorln(p, message, now)
    \/ \E p \in Loggers, message \in Messages, now \in Clock : Warnln(p, message, now)
    \/ \E p \in Loggers, message \in Messages, now \in Clock : Infoln(p, message, now)
    \/ \E p \in Loggers, message \in Messages, now \in Clock : Debugln(p, message, now)
    \/ \E p \in Loggers, message \in Messages, now \in Clock : Traceln(p, message, now)
    \/ \E c \in pending : CallSendRiemann(c)

Spec == Init /\ [][Next]_vars

----------------------------------------------------------------------------
(* The level conversions on their own: a rank is converted to its name by  *)
(* intToLogLevel and the name back to a rank by logLevelToInt.              *)

ProbeRanks == (LogOff - MaxRankProbe)..(LogAll + MaxRankProbe)

ConvIntToLogLevel ==
    /\ conv.stage = "rank"
    /\ conv' = [conv EXCEPT !.stage = "name", !.name = intToLogLevel(conv.rank)]
    /\ UNCHANGED <<loggers, streams, sent, parent, useErr, emits, pending>>

ConvLogLevelToInt ==
    /\ conv.stage = "name"
    /\ conv' = [conv EXCEPT !.stage = "back", !.back = logLevelToInt(conv.name)]
    /\ UNCHANGED <<loggers, streams, sent, parent, useErr, emits, pending>>

InitLevels ==
    /\ loggers = <<NewLogger(1, DefaultLoggerConfig)>>
    /\ streams = [s \in StreamIds |-> <<>>]
    /\ sent = [c \in ClientIds |-> <<>>]
    /\ parent = << <<0, <<>> >> >>
    /\ useErr = NoError
    /\ emits = 0
    /\ pending = {}
    /\ \E r \in ProbeRanks : conv = [stage |-> "rank", rank |-> r, name |-> <<>>, back |-> LogOff]

NextLevels == ConvIntToLogLevel \/ ConvLogLevelToInt

SpecLevels == InitLevels /\ [][NextLevels]_vars

----------------------------------------------------------------------------
(* Vocabulary of the properties *)

Severities == LogFatal..LogTrace
Forwarded == LogFatal..LogInfo
RecognisedNames == {OFF, FATAL, ERROR, WARN, INFO, DEBUG, TRACE, ALL}

(* the step is the first step of the formatted emit of severity sev on logger p *)
EmitF(sev, p, message, other, now) ==
    \/ sev = LogFatal /\ Fatalf(p, message, other, now)
    \/ sev = LogError /\ Errorf(p, message, other, now)
    \/ sev = LogWarn /\ Warnf(p, message, other, now)
    \/ sev = LogInfo /\ Infof(p, message, other, now)
    \/ sev = LogDebug /\ Debugf(p, message, other, now)
    \/ sev = LogTrace /\ Tracef(p, message, other, now)

(* the step is the first step of the line emit of severity sev on logger p *)
EmitLn(sev, p, message, now) ==
    \/ sev = LogFatal /\ Fatalln(p, message, now)
    \/ sev = LogError /\ Errorln(p, message, now)
    \/ sev = LogWarn /\ Warnln(p, message, now)
    \/ sev = LogInfo /\ Infoln(p, message, now)
    \/ sev = LogDebug /\ Debugln(p, message, now)
    \/ sev = LogTrace /\ Traceln(p, message, now)

(* the step is the first step of some emit of severity sev on logger p *)
EmitStep(sev, p) ==
    \E now \in Clock :
        \/ \E message \in Formats, other \in Others : EmitF(sev, p, message, other, now)
        \/ \E message \in Messages : EmitLn(sev, p, message, now)

(* writes to stream s and events to client c made by the step *)
Writes(s) == Len(streams'[s]) - Len(streams[s])
Events(c) == Len(sent'[c]) - Len(sent[c])

(* the step is the first step of an emit call; the step is the second step of one *)
EmitCall == emits' # emits
SendCall == emits' = emits /\ pending' # pending

Last(q) == q[Len(q)]

(* the line the documentation gives for a line emit without timestamp *)
PlainLine(sev, prefix, message) ==
    intToLogLevel(sev) \o <<" ", "|", " ">> \o prefix \o <<" ", "|", " ">> \o message \o <<"\n">>

----------------------------------------------------------------------------
(* C1: on a logger whose threshold rank r is one of Off..All, an emit of    *)
(* severity L, formatted or line, makes exactly one write to the logger's   *)
(* stream when rank(L) <= r and none when rank(L) > r; no other stream is   *)
(* written, and the call writes nothing more when it goes on to forward.    *)
C1_ConsoleGate ==
    [][/\ EmitCall =>
            \A p \in Loggers, sev \in Severities :
                \/ loggers[p].level \notin LogOff..LogAll
                \/ /\ Writes(loggers[p].stream) = (IF sev <= loggers[p].level THEN 1 ELSE 0)
                   /\ \A s \in StreamIds \ {loggers[p].stream} : Writes(s) = 0
                \/ ~EmitStep(sev, p)
       /\ SendCall => streams' = streams]_vars

(* a logger with threshold WARN has written its one line *)
C1_Witness ==
    \E p \in Loggers :
        /\ loggers[p].level = LogWarn
        /\ Len(streams[loggers[p].stream]) = 1

(* C2: on a logger with a client attached, whatever its threshold (Off and  *)
(* the invalid -1 included), a Fatal, Error, Warn or Info emit submits      *)
(* exactly one event to the logger's client, also when nothing is written,  *)
(* and a Debug or Trace emit submits none.  In steps: a logger that has a   *)
(* client keeps having one; the first step of an emit submits nothing and   *)
(* leaves the call to be forwarded exactly when its severity is one of the  *)
(* four; the forwarding step submits one event to the client the logger has *)
(* then, and ends the call.                                                 *)
C2_Forwarding ==
    [][/\ \A q \in Loggers :
            loggers[q].riemannClient # NilClient => loggers'[q].riemannClient # NilClient
       /\ EmitCall =>
            /\ sent' = sent
            /\ \A p \in Loggers, sev \in Severities :
                \/ loggers[p].riemannClient = NilClient
                \/ IF sev \in Forwarded
                   THEN \E c \in pending' \ pending :
                            /\ c.logger = p
                            /\ c.level = intToLogLevel(sev)
                            /\ pending' = pending \cup {c}
                   ELSE pending' = pending
                \/ ~EmitStep(sev, p)
       /\ \A c \in pending :
            (CallSendRiemann(c) /\ loggers[c.logger].riemannClient # NilClient) =>
                /\ Events(loggers[c.logger].riemannClient) = 1
                /\ \A d \in ClientIds \ {loggers[c.logger].riemannClient} : Events(d) = 0
                /\ c \notin pending']_vars

(* a logger whose threshold is the invalid -1 has forwarded an event and written nothing *)
C2_Witness ==
    \E p \in Loggers :
        /\ loggers[p].level = -1
        /\ loggers[p].riemannClient # NilClient
        /\ Len(sent[loggers[p].riemannClient]) = 1
        /\ pending = {}
        /\ \A s \in StreamIds : streams[s] = <<>>

(* C3: UseRiemann on one logger changes the client of no other logger, be   *)
(* it its parent or a logger derived from it, and a derived logger starts   *)
(* with the client its parent has at that moment: a child keeps forwarding  *)
(* to the client it was derived with.                                       *)
C3_IndependentClients ==
    [][/\ \A p \in Loggers, client \in ClientIds \cup {NilClient} :
            CallUseRiemann(p, client) =>
                \A q \in Loggers \ {p} : loggers'[q].riemannClient = loggers[q].riemannClient
       /\ \A p \in Loggers, prefix \in ModulePrefixes :
            CallNewModule(p, prefix) =>
                loggers'[Len(loggers) + 1].riemannClient = loggers[p].riemannClient]_vars

(* the parent had client 1, derived logger 2, then took client 2; logger 2 forwarded to client 1 *)
C3_Witness ==
    /\ Len(loggers) >= 2
    /\ parent[2][1] = 1
    /\ loggers[1].riemannClient = 2
    /\ loggers[2].riemannClient = 1
    /\ Len(sent[1]) = 1
    /\ sent[1][1].Service = loggers[2].config.Prefix
    /\ sent[2] = <<>>

(* C4: UseRiemann with a nil client returns ErrClientNil and leaves every   *)
(* logger as it was; with a client it returns no error and the client is    *)
(* the logger's client.                                                     *)
C4_UseRiemann ==
    [][\A p \in Loggers :
        /\ CallUseRiemann(p, NilClient) => useErr' = ErrClientNil /\ loggers' = loggers
        /\ \A client \in ClientIds :
              CallUseRiemann(p, client) =>
                  useErr' = NoError /\ loggers'[p].riemannClient = client]_vars

(* the last UseRiemann failed, and an emit after it reached the client attached before *)
C4_Witness ==
    /\ useErr = ErrClientNil
    /\ \E p \in Loggers :
          /\ loggers[p].riemannClient # NilClient
          /\ Len(sent[loggers[p].riemannClient]) = 1
          /\ sent[loggers[p].riemannClient][1].Service = loggers[p].config.Prefix

(* C5: a logger made with a level name that is none of the eight            *)
(* recognised ones, upper-cased as logLevelToInt does, has rank -1, and no  *)
(* emit on it, of any severity and either variant, writes to any stream.    *)
C5_UnknownLevelSilent ==
    [][/\ EmitCall =>
            \A p \in Loggers :
                ToUpper(loggers[p].config.LogLevel) \notin RecognisedNames =>
                    /\ loggers[p].level = -1
                    /\ \A sev \in Severities : streams' = streams \/ ~EmitStep(sev, p)
       /\ SendCall => streams' = streams]_vars

(* a logger with an unknown level name took an emit (it forwarded the event) and no stream was written *)
C5_Witness ==
    \E p \in Loggers :
        /\ ToUpper(loggers[p].config.LogLevel) \notin RecognisedNames
        /\ loggers[p].riemannClient # NilClient
        /\ Len(sent[loggers[p].riemannClient]) = 1
        /\ sent[loggers[p].riemannClient][1].State = FATAL
        /\ \A s \in StreamIds : streams[s] = <<>>

(* C6 as stated: every emit call makes one write to the stream and at most  *)
(* one submission to the client.                                            *)
C6_AlwaysOneWrite ==
    [][EmitCall =>
        \A p \in Loggers, sev \in Severities :
            \/ /\ Writes(loggers[p].stream) = 1
               /\ Events(1) + Events(2) <= 1
            \/ ~EmitStep(sev, p)]_vars

(* C6 amended: every emit call makes at most one write, to the logger's     *)
(* stream, exactly one when its severity passes the threshold and none      *)
(* otherwise, and at most one submission to a client: its first step makes  *)
(* that write and no submission and leaves at most one call to be           *)
(* forwarded, its forwarding step makes no write and at most one            *)
(* submission, and ends the call.                                           *)
C6_AtMostOneWrite ==
    [][/\ EmitCall =>
            /\ sent' = sent
            /\ pending \subseteq pending'
            /\ Cardinality(pending' \ pending) <= 1
            /\ \A p \in Loggers, sev \in Severities :
                \/ /\ Writes(loggers[p].stream) = (IF sev <= loggers[p].level THEN 1 ELSE 0)
                   /\ Writes(1) + Writes(2) <= 1
                \/ ~EmitStep(sev, p)
       /\ SendCall =>
            /\ streams' = streams
            /\ Events(1) + Events(2) <= 1
            /\ \E c \in pending : pending' = pending \ {c}]_vars

(* an emit below the threshold wrote nothing and submitted its one event *)
C6_Witness ==
    \E p \in Loggers :
        /\ loggers[p].level = LogOff
        /\ loggers[p].riemannClient # NilClient
        /\ Len(sent[loggers[p].riemannClient]) = 1
        /\ pending = {}
        /\ streams[loggers[p].stream] = <<>>

(* C7 as stated: on a logger without timestamps, a line emit of severity L  *)
(* that passes the threshold writes exactly LEVEL | prefix | message and a  *)
(* newline, the message taken literally.                                    *)
C7_LiteralLine ==
    [][\A p \in Loggers, sev \in Severities, message \in Messages, now \in Clock :
        (/\ EmitCall
         /\ ~loggers[p].config.AddTimeStamp
         /\ sev <= loggers[p].level
         /\ EmitLn(sev, p, message, now))
        => Last(streams'[loggers[p].stream])
             = PlainLine(sev, loggers[p].config.Prefix, message)]_vars

(* C8: a logger made by NewModule(prefix) has its parent's prefix followed  *)
(* by prefix, and its parent's level name, rank, timestamp flag and stream; *)
(* the call changes no existing logger; along a chain of derivations the    *)
(* prefix is the root's followed by every suffix in order.                  *)
RECURSIVE ChainPrefix(_)
ChainPrefix(q) ==
    IF parent[q][1] = 0
    THEN loggers[q].config.Prefix
    ELSE ChainPrefix(parent[q][1]) \o parent[q][2]

C8_Derivation ==
    [][\A p \in Loggers, prefix \in ModulePrefixes :
        CallNewModule(p, prefix) =>
            LET child == loggers'[Len(loggers) + 1] IN
            /\ child.config.Prefix = loggers[p].config.Prefix \o prefix
            /\ child.config.LogLevel = loggers[p].config.LogLevel
            /\ child.config.AddTimeStamp = loggers[p].config.AddTimeStamp
            /\ child.level = loggers[p].level
            /\ child.stream = loggers[p].stream
            /\ \A q \in Loggers : loggers'[q] = loggers[q]
            /\ \A q \in DOMAIN loggers' :
                  loggers'[q].config.Prefix = ChainPrefix(q)']_vars

(* logger 3 was derived from logger 2, itself derived from the root *)
C8_Witness ==
    /\ Len(loggers) = 3
    /\ parent[2][1] = 1
    /\ parent[3][1] = 2
    /\ loggers[3].config.Prefix = loggers[1].config.Prefix \o parent[2][2] \o parent[3][2]

(* C9: logLevelToInt(intToLogLevel(r)) = r for each of the ranks 0..7, and  *)
(* intToLogLevel gives "ALL" for every other rank, which converts back to 7 *)
C9_RoundTrip ==
    /\ conv.stage \in {"name", "back"} =>
          (conv.rank \notin LogOff..LogAll => conv.name = ALL)
    /\ conv.stage = "back" =>
          conv.back = (IF conv.rank \in LogOff..LogAll THEN conv.rank ELSE LogAll)

(* the rank of TRACE went to its name and back *)
C9_Witness ==
    /\ conv.stage = "back"
    /\ conv.rank = LogTrace
    /\ conv.name = TRACE
    /\ conv.back = LogTrace

(* C10: no step of any call, in any interleaving, changes the prefix, level *)
(* name, rank, timestamp flag or stream of an existing logger; a logger     *)
(* changes only by UseRiemann on it with a client, and then only in its     *)
(* client.                                                                  *)
C10_ConfigFrozen ==
    [][\A q \in Loggers :
        /\ q \in DOMAIN loggers'
        /\ loggers'[q].config = loggers[q].config
        /\ loggers'[q].level = loggers[q].level
        /\ loggers'[q].stream = loggers[q].stream
        /\ loggers'[q] # loggers[q] =>
              \E client \in ClientIds : CallUseRiemann(q, client)]_vars

(* an emit on the root has written its line and is yet to forward, while    *)
(* the root has derived a logger and holds a client: the calls interleave   *)
C10_Witness ==
    /\ Len(loggers) >= 2
    /\ loggers[1].riemannClient # NilClient
    /\ \E c \in pending : c.logger = 1
    /\ Len(streams[loggers[1].stream]) = 1
    /\ sent = [c \in ClientIds |-> <<>>]
    /\ loggers[1].config \in LoggerConfigs

====
